---------------------------- MODULE Spec2Model ----------------------------
(***************************************************************************)
(* A model of go-drive's common/drive_utils.go: the permission fold        *)
(* (pathPermissionLess, ResolveAcceptedPermissions) and the cross-drive    *)
(* copy engine (CopyAll, copyAll).                                         *)
(*                                                                         *)
(* SpecResolve runs ResolveAcceptedPermissions on every rule slice up to   *)
(* MaxRules rules; SpecCopy runs CopyAll on every source tree of up to     *)
(* MaxNodes nodes against every consistent destination.                    *)
(***************************************************************************)
EXTENDS Integers, Sequences, FiniteSets, TLC

\* ------------------------------------------------------------------ bounds
MaxRules == 2
MaxDepth == 2
MaxPolicy == 1
MaxNodes == 4
MaxChunks == 3
MaxArgLen == 2
MaxBody == 2

\* ------------------------------------------------- types.Permission (bits)
\* The types package is not part of the sources at hand; the permission bits
\* and the rule's accessors follow the data model of the specification.
PermissionEmpty == 0
PermissionRead == 1
PermissionWrite == 2

PermissionBits == {PermissionRead, PermissionWrite}

PermissionAll == PermissionRead + PermissionWrite

RECURSIVE BitAnd(_, _)
\* Go's a & b on unsigned integers.
BitAnd(a, b) ==
    IF a = 0 \/ b = 0 THEN 0
    ELSE (a % 2) * (b % 2) + 2 * BitAnd(a \div 2, b \div 2)

\* Go's a | b.
BitOr(a, b) == a + b - BitAnd(a, b)

\* Go's ^a, within the bits of a Permission that the model carries.
BitNot(a) == PermissionAll - BitAnd(a, PermissionAll)

HasBit(mask, bit) == BitAnd(mask, bit) # 0

\* ------------------------------------------------- types.PathPermission
Subjects == {"Anonymous", "User", "Group"}

Modes == {"Accept", "Reject", "Both"}

PathPermission ==
    [Depth : 1..MaxDepth, Subject : Subjects, Policy : 0..MaxPolicy,
     Permission : 1..PermissionAll, Mode : Modes]

IsForAnonymous(p) == p.Subject = "Anonymous"

IsForUser(p) == p.Subject = "User"

IsAccept(p) == p.Mode \in {"Accept", "Both"}

IsReject(p) == p.Mode \in {"Reject", "Both"}

\* ------------------------------------------------- pathPermissionLess
pathPermissionLessNoDepth(a, b) ==
    IF IsForAnonymous(a)
    THEN (IF IsForAnonymous(b) THEN a.Policy < b.Policy ELSE FALSE)
    ELSE IF IsForAnonymous(b) THEN TRUE
    ELSE IF IsForUser(a)
         THEN (IF IsForUser(b) THEN a.Policy < b.Policy ELSE TRUE)
         ELSE (IF IsForUser(b) THEN FALSE ELSE a.Policy < b.Policy)

pathPermissionLess(a, b) ==
    IF a.Depth # b.Depth
    THEN a.Depth > b.Depth
    ELSE IF IsForAnonymous(a)
         THEN (IF IsForAnonymous(b) THEN a.Policy < b.Policy ELSE FALSE)
         ELSE IF IsForAnonymous(b) THEN TRUE
         ELSE IF IsForUser(a)
              THEN (IF IsForUser(b) THEN a.Policy < b.Policy ELSE TRUE)
              ELSE (IF IsForUser(b) THEN FALSE ELSE a.Policy < b.Policy)

\* ------------------------------------------------- sort.Slice
\* sort.Slice sorts the slice it is given, in place.  On fewer than twelve
\* elements it runs an insertion sort: each element moves left while it is
\* less than its left neighbour.
Front(s) == SubSeq(s, 1, Len(s) - 1)

Last(s) == s[Len(s)]

RECURSIVE insertLeft(_, _)
insertLeft(s, x) ==
    IF s = <<>> THEN <<x>>
    ELSE IF pathPermissionLess(x, Last(s))
         THEN Append(insertLeft(Front(s), x), Last(s))
         ELSE Append(s, x)

RECURSIVE sortSlice(_)
sortSlice(s) ==
    IF s = <<>> THEN <<>> ELSE insertLeft(sortSlice(Front(s)), Last(s))

\* ------------------------------------------------- the fold (lines 74-83)
AcceptBranchUnmasked(acc, rej, item) ==
    IF IsAccept(item) THEN BitOr(acc, item.Permission) ELSE acc

AcceptBranchAlways(acc, rej, item) ==
    BitOr(acc, BitAnd(item.Permission, BitNot(rej)))

\* line 75-77: acceptedPermission |= item.Permission & ^rejectedPermission
AcceptBranch(acc, rej, item) ==
    IF IsAccept(item)
    THEN BitOr(acc, BitAnd(item.Permission, BitNot(rej)))
    ELSE acc

RejectBranchClearing(acc, item) ==
    IF IsReject(item) THEN BitAnd(acc, BitNot(item.Permission)) ELSE acc

\* line 78-80:
\* acceptedPermission &= ^(item.Permission & (^acceptedPermission))
RejectBranch(acc, item) ==
    IF IsReject(item)
    THEN BitAnd(acc, BitNot(BitAnd(item.Permission, BitNot(acc))))
    ELSE acc

\* line 81: rejectedPermission |= item.Permission
RejectRecord(rej, item) ==
    IF IsReject(item) THEN BitOr(rej, item.Permission) ELSE rej

RECURSIVE foldItems(_, _, _)
\* The loop of lines 74-83 over a sorted slice, from (acc, rej).
foldItems(s, acc, rej) ==
    IF s = <<>> THEN acc
    ELSE LET a1 == AcceptBranch(acc, rej, s[1])
         IN  foldItems(Tail(s), RejectBranch(a1, s[1]), RejectRecord(rej, s[1]))

\* The value ResolveAcceptedPermissions returns for a slice.
ResolveAcceptedPermissions(s) ==
    foldItems(sortSlice(s), PermissionEmpty, PermissionEmpty)

\* ------------------------------------------------------------------ state
VARIABLES
    \* ResolveAcceptedPermissions
    items,               \* the caller's slice, as ResolveAcceptedPermissions sees it
    input,               \* the slice as the caller passed it
    rpc,                 \* position in ResolveAcceptedPermissions
    idx,                 \* the range loop's index
    acceptedPermission,
    rejectedPermission,
    result,              \* the returned mask
    \* CopyAll
    nodeCount,           \* number of nodes of the source subtree (node 1 is its root)
    srcParent,           \* source tree: the parent of each node (0 for the root)
    srcIsDir,            \* source tree: entry.Type().IsDir() of each node
    dst,                 \* the destination drive: what each destination path holds
    dst0,                \* the destination drive when CopyAll was called
    override,            \* CopyAll's override argument
    canceled,            \* ctx.Canceled()
    writtenAtCancel,     \* nodes written to the destination when the flag was set
    cpc,                 \* position in CopyAll
    stack,               \* the call stack of copyAll, innermost frame last
    err,                 \* the error CopyAll returned
    ops,                 \* the calls made on the destination drive, with outcomes
    calls,               \* the calls of the caller's callback
    progress,            \* the values passed to the caller's ctx.Progress
    temps,               \* the staging files that exist
    rets,                \* what each copyAll invocation returned, in order of return
    \* CopyWithProgress
    cwSize,              \* bytes the source holds
    cwPos,               \* bytes read from the source so far
    cwSink,              \* bytes written to dst so far
    cwW,                 \* bytes copied by the io.CopyBuffer call under way
    cwIoErr,             \* the error the io.CopyBuffer call under way ended with
    written,             \* the named result written
    cwErr,               \* the named result err, as returned
    cwPc,                \* position in CopyWithProgress
    cwProgress,          \* the values passed to ctx.Progress
    cwCanceled,          \* ctx.Canceled()
    cwSinkAtCancel,      \* bytes written to dst when the flag was set
    \* BuildEntriesTree
    tStack,              \* the call stack of buildEntriesTree, innermost frame last
    totals,              \* the values passed to ctx.Total
    tBuilt,              \* the nodes placed in the tree so far
    tErr,                \* the error BuildEntriesTree returned
    \* FsDrive
    fsEntries,           \* the file system: what each absolute path holds
    fsBefore,            \* the file system when MakeDir was called
    mkArg,               \* MakeDir's path argument
    mkRet,               \* what MakeDir returned
    \* DownloadIContent
    content,             \* the entry's content capabilities, and the kind of w
    hpc,                 \* position in DownloadIContent
    respHeader,          \* the ResponseWriter's header map
    respStatus,          \* the status code given to WriteHeader (0: none yet)
    respSent,            \* the status line and headers sent to the client, once sent
    respBody,            \* body bytes sent to the client
    readerOpen,          \* GetReader calls made
    hErr                 \* the error DownloadIContent returned

resolveVars ==
    <<items, input, rpc, idx, acceptedPermission, rejectedPermission, result>>

copyVars ==
    <<nodeCount, srcParent, srcIsDir, dst, dst0, override, canceled, writtenAtCancel,
      cpc, stack, err, ops, calls, progress, temps, rets>>

streamVars ==
    <<cwSize, cwPos, cwSink, cwW, cwIoErr, written, cwErr, cwPc, cwProgress,
      cwCanceled, cwSinkAtCancel>>

treeVars == <<tStack, totals, tBuilt, tErr>>

fsVars == <<fsEntries, fsBefore, mkArg, mkRet>>

httpVars ==
    <<content, hpc, respHeader, respStatus, respSent, respBody, readerOpen, hErr>>

auxVars == <<streamVars, treeVars, fsVars, httpVars>>

vars == <<resolveVars, copyVars, auxVars>>

\* Each component at rest, for the specifications that do not run it.
ResolveIdle ==
    /\ items = <<>> /\ input = <<>> /\ rpc = "idle" /\ idx = 1
    /\ acceptedPermission = PermissionEmpty
    /\ rejectedPermission = PermissionEmpty
    /\ result = PermissionEmpty

StreamIdle ==
    /\ cwSize = 0 /\ cwPos = 0 /\ cwSink = 0 /\ cwW = 0 /\ cwIoErr = "nil"
    /\ written = 0 /\ cwErr = "nil" /\ cwPc = "idle" /\ cwProgress = <<>>
    /\ cwCanceled = FALSE /\ cwSinkAtCancel = 0

TreeIdle == tStack = <<>> /\ totals = <<>> /\ tBuilt = {} /\ tErr = "nil"

FsIdle == fsEntries = <<>> /\ fsBefore = <<>> /\ mkArg = <<>> /\ mkRet = <<>>

HttpIdle ==
    /\ content = <<>> /\ hpc = "idle" /\ respHeader = <<>> /\ respStatus = 0
    /\ respSent = <<>> /\ respBody = 0 /\ readerOpen = 0 /\ hErr = "nil"

AuxIdle == StreamIdle /\ TreeIdle /\ FsIdle /\ HttpIdle

RuleSlices == UNION {[1..n -> PathPermission] : n \in 0..MaxRules}

\* The copy engine at rest, for the specifications that do not run it.
CopyIdle ==
    /\ nodeCount = 0 /\ srcParent = <<>> /\ srcIsDir = <<>>
    /\ dst = <<>> /\ dst0 = <<>>
    /\ override = FALSE /\ canceled = FALSE /\ writtenAtCancel = 0
    /\ cpc = "idle" /\ stack = <<>> /\ err = "nil"
    /\ ops = <<>> /\ calls = <<>> /\ progress = <<>> /\ temps = {} /\ rets = <<>>

InitResolve ==
    /\ CopyIdle
    /\ AuxIdle
    /\ items \in RuleSlices
    /\ input = items
    /\ rpc = "sort"
    /\ idx = 1
    /\ acceptedPermission = PermissionEmpty
    /\ rejectedPermission = PermissionEmpty
    /\ result = PermissionEmpty

\* line 71: sort.Slice(items, ...)
SortItems ==
    /\ rpc = "sort"
    /\ items' = sortSlice(items)
    /\ rpc' = "fold"
    /\ UNCHANGED <<input, idx, acceptedPermission, rejectedPermission, result>>
    /\ UNCHANGED <<copyVars, auxVars>>

\* lines 74-83: one iteration of the range loop
FoldItem ==
    /\ rpc = "fold"
    /\ idx <= Len(items)
    /\ LET item == items[idx]
           a1 == AcceptBranch(acceptedPermission, rejectedPermission, item)
       IN  /\ acceptedPermission' = RejectBranch(a1, item)
           /\ rejectedPermission' = RejectRecord(rejectedPermission, item)
    /\ idx' = idx + 1
    /\ UNCHANGED <<items, input, rpc, result>>
    /\ UNCHANGED <<copyVars, auxVars>>

\* line 84: return acceptedPermission
ReturnAccepted ==
    /\ rpc = "fold"
    /\ idx > Len(items)
    /\ result' = acceptedPermission
    /\ rpc' = "done"
    /\ UNCHANGED <<items, input, idx, acceptedPermission, rejectedPermission>>
    /\ UNCHANGED <<copyVars, auxVars>>

NextResolve == SortItems \/ FoldItem \/ ReturnAccepted

SpecResolve == InitResolve /\ [][NextResolve]_vars

\* ------------------------------------------------- permission claims
Perms(s) ==
    {[i \in 1..Len(s) |-> s[p[i]]] : p \in Permutations(1..Len(s))}

Carries(p, bit) == HasBit(p.Permission, bit)

\* The sorted slice holds a rule carrying `bit` that accepts, with no
\* rejecting rule carrying `bit` folded before it.
GrantedUnblocked(s, bit) ==
    \E k \in 1..Len(s) :
        /\ IsAccept(s[k]) /\ Carries(s[k], bit)
        /\ \A j \in 1..(k - 1) : ~(IsReject(s[j]) /\ Carries(s[j], bit))

ExampleRules ==
    << [Depth |-> 2, Subject |-> "Anonymous", Policy |-> 0,
        Permission |-> PermissionRead + PermissionWrite, Mode |-> "Accept"],
       [Depth |-> 1, Subject |-> "User", Policy |-> 0,
        Permission |-> PermissionWrite, Mode |-> "Reject"] >>

\* C1: every permutation of the input slice yields the mask that this call
\* returned, also when rules tie on depth, subject class and policy.
C1_OrderInvariant ==
    rpc = "done" =>
        \A q \in Perms(input) : ResolveAcceptedPermissions(q) = result

\* C2 (as claimed): after the fold no bit carried by a processed Reject rule
\* remains in the returned mask; the example slice resolves to READ only.
C2_RejectClearsAccepted ==
    rpc = "done" =>
        /\ \A k \in 1..Len(items) :
              items[k].Mode = "Reject" => BitAnd(result, items[k].Permission) = 0
        /\ input = ExampleRules => result = PermissionRead

\* C2 (amended): a Reject rule leaves the mask accumulated so far as it is and
\* only blocks later grants: a bit is in the returned mask exactly when some
\* Accept rule carrying it is folded with no Reject rule carrying it folded
\* before; the example slice resolves to READ|WRITE.
C2_RejectOnlyBlocksLater ==
    rpc = "done" =>
        /\ \A bit \in PermissionBits :
              HasBit(result, bit) <=> GrantedUnblocked(items, bit)
        /\ input = ExampleRules => result = PermissionRead + PermissionWrite

C2_Witness ==
    /\ rpc = "done"
    /\ input = ExampleRules
    /\ result = PermissionRead + PermissionWrite

\* C3: once a Reject rule carrying a bit has been folded, no rule folded later
\* sets that bit; and when the first folded rule carrying the bit is a pure
\* Reject rule, the bit is absent from the accumulated and the returned mask.
C3_PermanentReject ==
    rpc \in {"fold", "done"} =>
        \A bit \in PermissionBits :
            /\ \A j \in 1..(idx - 1) :
                  (IsReject(items[j]) /\ Carries(items[j], bit)
                     /\ HasBit(acceptedPermission, bit))
                  => HasBit(foldItems(SubSeq(items, 1, j),
                                      PermissionEmpty, PermissionEmpty), bit)
            /\ LET carriers == {k \in 1..(idx - 1) : Carries(items[k], bit)}
               IN  (carriers # {}
                    /\ \E f \in carriers :
                          /\ \A k \in carriers : f <= k
                          /\ items[f].Mode = "Reject")
                   => /\ ~HasBit(acceptedPermission, bit)
                      /\ rpc = "done" => ~HasBit(result, bit)

C3_Witness ==
    /\ rpc = "done"
    /\ Len(items) = 2
    /\ items[1].Mode = "Reject" /\ Carries(items[1], PermissionWrite)
    /\ items[2].Mode = "Accept" /\ Carries(items[2], PermissionWrite)
    /\ items[2].Permission = PermissionRead + PermissionWrite
    /\ result = PermissionRead

\* C4: rules are folded deepest first whatever their subject class or policy,
\* and when two rules of different depth carry a bit that no other rule
\* carries, the returned mask has the bit exactly when the deeper rule accepts.
C4_DepthPrecedence ==
    /\ rpc \in {"fold", "done"} =>
          \A i, j \in 1..Len(items) : i < j => items[i].Depth >= items[j].Depth
    /\ rpc = "done" =>
          \A d, s \in 1..Len(input) : \A bit \in PermissionBits :
              (/\ input[d].Depth > input[s].Depth
               /\ Carries(input[d], bit) /\ Carries(input[s], bit)
               /\ \A o \in 1..Len(input) : ~Carries(input[o], bit) \/ o \in {d, s})
              => (HasBit(result, bit) <=> IsAccept(input[d]))

C4_Witness ==
    /\ rpc = "done"
    /\ Len(input) = 2
    /\ input[1].Depth = 1 /\ input[1].Subject = "User"
    /\ input[1].Mode = "Reject" /\ input[1].Policy = 0
    /\ input[2].Depth = 2 /\ input[2].Subject = "Anonymous"
    /\ input[2].Mode = "Accept" /\ input[2].Policy = 1
    /\ Carries(input[1], PermissionWrite) /\ Carries(input[2], PermissionWrite)
    /\ HasBit(result, PermissionWrite)

\* C5: the call leaves the caller's rule sequence as it was passed: the same
\* elements in the same order.
C5_CallerSliceUnchanged == items = input

RECURSIVE AcceptedUnion(_)
AcceptedUnion(s) ==
    IF s = <<>> THEN PermissionEmpty
    ELSE BitOr(IF IsAccept(s[1]) THEN s[1].Permission ELSE PermissionEmpty,
               AcceptedUnion(Tail(s)))

\* C6: the returned mask holds only bits carried by an Accept rule of the
\* input; an empty slice or a slice of Reject rules yields PermissionEmpty.
C6_FailClosed ==
    rpc = "done" =>
        /\ BitAnd(result, BitNot(AcceptedUnion(input))) = 0
        /\ (\A k \in 1..Len(input) : ~IsAccept(input[k])) => result = PermissionEmpty

C6_Witness ==
    /\ rpc = "done"
    /\ Len(input) = 2
    /\ input[1].Mode = "Reject" /\ input[2].Mode = "Reject"
    /\ input[1].Depth # input[2].Depth
    /\ result = PermissionEmpty

\* ------------------------------------------------- EntryNode (lines 206-209)
Nodes == 1..nodeCount

\* entry.children, in listed order.
Children(k) ==
    SelectSeq([j \in 1..nodeCount |-> j], LAMBDA j : srcParent[j] = k)

RECURSIVE Ancestors(_)
Ancestors(k) ==
    IF srcParent[k] = 0 THEN {}
    ELSE {srcParent[k]} \cup Ancestors(srcParent[k])

\* e.Name(): the names of the entries of one listing differ.
Name(k) == k

RECURSIVE DstPath(_)
\* The destination path copyAll computes for a node: CopyAll's `to` for the
\* root, CleanPath(path.Join(to, e.Name())) below it (line 285).
DstPath(k) ==
    IF srcParent[k] = 0 THEN <<>>
    ELSE Append(DstPath(srcParent[k]), Name(k))

DstPaths == {DstPath(k) : k \in Nodes}

\* ------------------------------------------------- the destination drive
\* What a destination path holds: nothing, a directory, a file with the
\* bytes it had before the operation ("old"), a file with the bytes of the
\* source entry ("copy"), or a file with a part of them ("partial").
FileStates == {"old", "copy", "partial"}

TypeOf(held) ==
    IF held = "none" THEN "none" ELSE IF held = "dir" THEN "dir" ELSE "file"

\* ------------------------------------------------- copyAll's frames
Frame(k, to, newParent) ==
    [node |-> k, to |-> to, newParent |-> newParent, pc |-> "start",
     canceledAtStart |-> FALSE,
     processed |-> 0, allProcessed |-> TRUE, dirCreate |-> FALSE,
     dstExists |-> FALSE, dstType |-> "none", i |-> 1, staged |-> "none",
     rv |-> [processed |-> 0, allProcessed |-> FALSE, err |-> "nil"]]

Top == stack[Len(stack)]

SetTop(f) == [stack EXCEPT ![Len(stack)] = f]

\* return p, r, e
Return(f, p, r, e) ==
    [f EXCEPT !.pc = "ret", !.rv = [processed |-> p, allProcessed |-> r, err |-> e]]

Running == cpc = "copy" /\ stack # <<>>

CheckCanceledIgnored(f, flag) ==
    [f EXCEPT !.pc = "probe", !.canceledAtStart = flag]

\* lines 250-252: if ctx.Canceled() { return processed, false, ErrorCanceled }
CheckCanceled(f, flag) ==
    IF flag
    THEN Return([f EXCEPT !.canceledAtStart = TRUE], f.processed, FALSE, "Canceled")
    ELSE [f EXCEPT !.pc = "probe"]

DirConflictMissed(f) == FALSE

\* lines 271-272: the destination exists and is a file, the source a directory
DirConflict(f) == f.dstExists /\ f.dstType = "file"

\* lines 299-300: the destination exists and is a directory, the source a file
FileConflict(f) == f.dstExists /\ f.dstType = "dir"

RemoveStagedMissing(files, k) == files

\* line 317: defer func() { _ = os.Remove(file.Name()) }()
RemoveStaged(files, k) == files \ {k}

ChildFailedIgnored(rv) == FALSE

\* lines 286-288: if err != nil { return processed, false, err }
ChildFailed(rv) == rv.err # "nil"

SkipReturnFullyProcessed(f) == Return(f, f.processed + 1, TRUE, "nil")

\* lines 304-307: return processed + 1, false, nil
SkipReturn(f) == Return(f, f.processed + 1, FALSE, "nil")

\* Nodes written to the destination so far: directories made and files saved.
Written ==
    Cardinality({k \in Nodes :
        \E x \in 1..Len(ops) :
            /\ ops[x].op \in {"MakeDir", "Save"} /\ ops[x].path = DstPath(k)
            /\ ops[x].res = "ok"})

\* ------------------------------------------------- Init
SourceTrees ==
    {t \in [parent : [Nodes -> 0..(nodeCount - 1)], isDir : [Nodes -> BOOLEAN]] :
        /\ t.parent[1] = 0
        /\ \A k \in Nodes \ {1} :
              /\ 1 <= t.parent[k] /\ t.parent[k] < k
              /\ t.isDir[t.parent[k]]}

InitCopy ==
    /\ ResolveIdle
    /\ AuxIdle
    /\ nodeCount \in 1..MaxNodes
    /\ \E t \in SourceTrees : srcParent = t.parent /\ srcIsDir = t.isDir
    /\ dst0 \in [DstPaths -> {"none", "dir", "old"}]
    /\ \A k \in Nodes \ {1} :
          dst0[DstPath(k)] # "none" => dst0[DstPath(srcParent[k])] = "dir"
    /\ dst = dst0
    /\ override \in BOOLEAN
    /\ canceled = FALSE
    /\ writtenAtCancel = 0
    /\ cpc = "build"
    /\ stack = <<>>
    /\ err = "nil"
    /\ ops = <<>> /\ calls = <<>> /\ progress = <<>> /\ temps = {} /\ rets = <<>>

\* ------------------------------------------------- the task's context
\* Another goroutine sets the cancellation flag, at any moment of the
\* operation; it stays set.
Cancel ==
    /\ cpc \in {"build", "copy"}
    /\ ~canceled
    /\ canceled' = TRUE
    /\ writtenAtCancel' = Written
    /\ UNCHANGED <<nodeCount, srcParent, srcIsDir, dst, dst0, override, cpc,
                   stack, err, ops, calls, progress, temps, rets>>
    /\ UNCHANGED <<resolveVars, auxVars>>

\* ------------------------------------------------- CopyAll (lines 331-341)
\* lines 332-339: BuildEntriesTree, then the root's copyAll with
\* newParent = false.  The snapshot fails when the flag is set or a listing
\* fails.
CopyAllBuild ==
    /\ cpc = "build"
    /\ \/ /\ canceled
          /\ cpc' = "done" /\ err' = "Canceled" /\ stack' = stack
       \/ /\ ~canceled
          /\ cpc' = "done" /\ err' = "ListFailed" /\ stack' = stack
       \/ /\ ~canceled
          /\ cpc' = "copy" /\ err' = err
          /\ stack' = <<Frame(1, DstPath(1), FALSE)>>
    /\ UNCHANGED <<nodeCount, srcParent, srcIsDir, dst, dst0, override, canceled,
                   writtenAtCancel, ops, calls, progress, temps, rets>>
    /\ UNCHANGED <<resolveVars, auxVars>>

copyFrame == <<nodeCount, srcParent, srcIsDir, dst0, override, canceled,
               writtenAtCancel, cpc, err>>

\* lines 249-252
copyAllCheckCanceled ==
    /\ Running /\ Top.pc = "start"
    /\ stack' = SetTop(CheckCanceled(Top, canceled))
    /\ UNCHANGED <<dst, ops, calls, progress, temps, rets>>
    /\ UNCHANGED copyFrame
    /\ UNCHANGED <<resolveVars, auxVars>>

BodyPc(k) == IF srcIsDir[k] THEN "dir" ELSE "file"

\* lines 253-266
copyAllProbe ==
    /\ Running /\ Top.pc = "probe"
    /\ \/ /\ Top.newParent
          /\ stack' = SetTop([Top EXCEPT !.pc = BodyPc(Top.node),
                                         !.dstExists = FALSE])
          /\ ops' = ops
       \/ /\ ~Top.newParent
          /\ \/ /\ stack' = SetTop(Return(Top, Top.processed, FALSE, "GetFailed"))
                /\ ops' = Append(ops, [op |-> "Get", path |-> Top.to, res |-> "err"])
             \/ /\ stack' = SetTop([Top EXCEPT
                                      !.pc = BodyPc(Top.node),
                                      !.dstExists = dst[Top.to] # "none",
                                      !.dstType = TypeOf(dst[Top.to])])
                /\ ops' = Append(ops, [op |-> "Get", path |-> Top.to,
                                       res |-> IF dst[Top.to] = "none"
                                               THEN "notfound" ELSE "ok"])
    /\ UNCHANGED <<dst, calls, progress, temps, rets>>
    /\ UNCHANGED copyFrame
    /\ UNCHANGED <<resolveVars, auxVars>>

LoopPcSkipsChildren(k, i) == "after"

\* Where a directory's frame goes on once child i - 1 is done.
LoopPc(k, i) == IF i <= Len(Children(k)) THEN "children" ELSE "after"

\* lines 269-282
copyAllDir ==
    /\ Running /\ Top.pc = "dir"
    /\ \/ /\ Top.dstExists /\ DirConflict(Top)
          /\ stack' = SetTop(Return(Top, Top.processed, FALSE, "NotAllowed"))
          /\ UNCHANGED <<dst, ops>>
       \/ /\ Top.dstExists /\ ~DirConflict(Top)
          /\ stack' = SetTop([Top EXCEPT !.pc = LoopPc(Top.node, 1)])
          /\ UNCHANGED <<dst, ops>>
       \/ /\ ~Top.dstExists
          /\ \/ /\ stack' = SetTop(Return(Top, Top.processed, FALSE, "MakeDirFailed"))
                /\ ops' = Append(ops, [op |-> "MakeDir", path |-> Top.to, res |-> "err"])
                /\ dst' = dst
             \/ /\ stack' = SetTop([Top EXCEPT !.pc = LoopPc(Top.node, 1),
                                               !.dirCreate = TRUE])
                /\ ops' = Append(ops, [op |-> "MakeDir", path |-> Top.to, res |-> "ok"])
                /\ dst' = [dst EXCEPT ![Top.to] = "dir"]
    /\ UNCHANGED <<calls, progress, temps, rets>>
    /\ UNCHANGED copyFrame
    /\ UNCHANGED <<resolveVars, auxVars>>

FreshParentForgotten(f) == FALSE

\* line 285: dirCreate is the newParent argument of the child's call
FreshParent(f) == f.dirCreate

\* line 285: the call of copyAll for child i
copyAllDescend ==
    /\ Running /\ Top.pc = "children"
    /\ LET c == Children(Top.node)[Top.i]
       IN  stack' = Append(stack, Frame(c, Append(Top.to, Name(c)), FreshParent(Top)))
    /\ UNCHANGED <<dst, ops, calls, progress, temps, rets>>
    /\ UNCHANGED copyFrame
    /\ UNCHANGED <<resolveVars, auxVars>>

\* lines 298-312
copyAllFile ==
    /\ Running /\ Top.pc = "file"
    /\ \/ /\ Top.dstExists /\ FileConflict(Top)
          /\ stack' = SetTop(Return(Top, Top.processed, FALSE, "NotAllowed"))
       \/ /\ Top.dstExists /\ ~FileConflict(Top) /\ ~override
          /\ stack' = SetTop(SkipReturn(Top))
       \/ /\ ~(Top.dstExists /\ (FileConflict(Top) \/ ~override))
          /\ \/ stack' = SetTop(Return(Top, Top.processed, FALSE, "NotReadable"))
             \/ stack' = SetTop([Top EXCEPT !.pc = "stage"])
    /\ UNCHANGED <<dst, ops, calls, progress, temps, rets>>
    /\ UNCHANGED copyFrame
    /\ UNCHANGED <<resolveVars, auxVars>>

\* line 313, CopyIContentToTempFile lines 130-133: ioutil.TempFile
copyAllStageCreate ==
    /\ Running /\ Top.pc = "stage"
    /\ \/ /\ stack' = SetTop(Return(Top, Top.processed, FALSE, "StageFailed"))
          /\ temps' = temps
       \/ /\ stack' = SetTop([Top EXCEPT !.pc = "stagecopy"])
          /\ temps' = temps \cup {Top.node}
    /\ UNCHANGED <<dst, ops, calls, progress, rets>>
    /\ UNCHANGED copyFrame
    /\ UNCHANGED <<resolveVars, auxVars>>

\* CopyIContentToTempFile lines 134-139, CopyIContent, and CopyWithProgress
\* up to its first io.CopyBuffer: the flag is read first (line 90); opening
\* the content may fail; an error of io.CopyBuffer leaves the loop with the
\* function's own err still nil (line 93 declares a new err), so the bytes
\* staged so far pass for the whole content.
copyAllStageCopy ==
    /\ Running /\ Top.pc = "stagecopy"
    /\ \/ /\ canceled
          /\ stack' = SetTop(Return(Top, Top.processed, FALSE, "Canceled"))
          /\ temps' = temps \ {Top.node}
       \/ /\ ~canceled
          /\ \/ /\ stack' = SetTop(Return(Top, Top.processed, FALSE, "StageFailed"))
                /\ temps' = temps \ {Top.node}
             \/ /\ stack' = SetTop([Top EXCEPT !.pc = "save", !.staged = "partial"])
                /\ temps' = temps
             \/ /\ stack' = SetTop([Top EXCEPT !.pc = "stagecheck", !.staged = "copy"])
                /\ temps' = temps
    /\ UNCHANGED <<dst, ops, calls, progress, rets>>
    /\ UNCHANGED copyFrame
    /\ UNCHANGED <<resolveVars, auxVars>>

\* CopyWithProgress after a chunk was copied: the flag is read again (line
\* 90) before the io.CopyBuffer that finds the source exhausted; then
\* CopyIContentToTempFile lines 140-146 (Seek).
copyAllStageCheck ==
    /\ Running /\ Top.pc = "stagecheck"
    /\ \/ /\ canceled
          /\ stack' = SetTop(Return(Top, Top.processed, FALSE, "Canceled"))
          /\ temps' = temps \ {Top.node}
       \/ /\ ~canceled
          /\ \/ /\ stack' = SetTop(Return(Top, Top.processed, FALSE, "StageFailed"))
                /\ temps' = temps \ {Top.node}
             \/ /\ stack' = SetTop([Top EXCEPT !.pc = "save"])
                /\ temps' = temps
    /\ UNCHANGED <<dst, ops, calls, progress, rets>>
    /\ UNCHANGED copyFrame
    /\ UNCHANGED <<resolveVars, auxVars>>

\* lines 318-321: driveTo.Save(to, file, ctxWrapper{ctx}).  A failing Save
\* may leave the path as it was or hold a part of the bytes; a drive that
\* reads the flag may fail with the cancellation error.
copyAllSave ==
    /\ Running /\ Top.pc = "save"
    /\ \/ /\ stack' = SetTop([Top EXCEPT !.pc = "after"])
          /\ ops' = Append(ops, [op |-> "Save", path |-> Top.to, res |-> "ok"])
          /\ dst' = [dst EXCEPT ![Top.to] = Top.staged]
       \/ /\ \E e \in {"SaveFailed"} \cup (IF canceled THEN {"Canceled"} ELSE {}) :
                stack' = SetTop(Return(Top, Top.processed, FALSE, e))
          /\ ops' = Append(ops, [op |-> "Save", path |-> Top.to, res |-> "err"])
          /\ \E held \in {dst[Top.to], "partial"} :
                dst' = [dst EXCEPT ![Top.to] = held]
    /\ UNCHANGED <<calls, progress, temps, rets>>
    /\ UNCHANGED copyFrame
    /\ UNCHANGED <<resolveVars, auxVars>>

\* lines 323-328
copyAllAfter ==
    /\ Running /\ Top.pc = "after"
    /\ \/ /\ calls' = Append(calls, [node |-> Top.node,
                                     allProcessed |-> Top.allProcessed,
                                     res |-> "err"])
          /\ stack' = SetTop(Return(Top, Top.processed, FALSE, "CallbackFailed"))
          /\ progress' = progress
       \/ /\ calls' = Append(calls, [node |-> Top.node,
                                     allProcessed |-> Top.allProcessed,
                                     res |-> "ok"])
          /\ stack' = SetTop(Return([Top EXCEPT !.processed = Top.processed + 1],
                                    Top.processed + 1, Top.allProcessed, "nil"))
          /\ progress' = Append(progress, Top.processed + 1)
    /\ UNCHANGED <<dst, ops, temps, rets>>
    /\ UNCHANGED copyFrame
    /\ UNCHANGED <<resolveVars, auxVars>>

\* The caller's side of a return: lines 286-293 in the parent directory's
\* loop, lines 339-340 for the root.  The deferred os.Remove of line 317
\* runs as the frame is left.
copyAllReturn ==
    /\ Running /\ Top.pc = "ret"
    /\ temps' = RemoveStaged(temps, Top.node)
    /\ rets' = Append(rets, [node |-> Top.node,
                             canceledAtStart |-> Top.canceledAtStart,
                             processed |-> Top.rv.processed,
                             allProcessed |-> Top.rv.allProcessed,
                             err |-> Top.rv.err])
    /\ IF Len(stack) = 1
       THEN /\ stack' = <<>>
            /\ cpc' = "done"
            /\ err' = Top.rv.err
            /\ progress' = progress
       ELSE LET parent == stack[Len(stack) - 1]
                rest == SubSeq(stack, 1, Len(stack) - 2)
            IN  /\ UNCHANGED <<cpc, err>>
                /\ IF ChildFailed(Top.rv)
                   THEN /\ stack' = Append(rest,
                               Return(parent, parent.processed, FALSE, Top.rv.err))
                        /\ progress' = progress
                   ELSE /\ stack' = Append(rest,
                               [parent EXCEPT
                                  !.processed = parent.processed + Top.rv.processed,
                                  !.allProcessed = parent.allProcessed
                                                     /\ Top.rv.allProcessed,
                                  !.i = parent.i + 1,
                                  !.pc = LoopPc(parent.node, parent.i + 1)])
                        /\ progress' = Append(progress,
                                              parent.processed + Top.rv.processed)
    /\ UNCHANGED <<nodeCount, srcParent, srcIsDir, dst, dst0, override, canceled,
                   writtenAtCancel, ops, calls>>
    /\ UNCHANGED <<resolveVars, auxVars>>

NextCopy ==
    \/ Cancel
    \/ CopyAllBuild
    \/ copyAllCheckCanceled
    \/ copyAllProbe
    \/ copyAllDir
    \/ copyAllDescend
    \/ copyAllFile
    \/ copyAllStageCreate
    \/ copyAllStageCopy
    \/ copyAllStageCheck
    \/ copyAllSave
    \/ copyAllAfter
    \/ copyAllReturn

SpecCopy == InitCopy /\ [][NextCopy]_vars

\* ------------------------------------------------- copy claims
Range(s) == {s[x] : x \in 1..Len(s)}

OpsOn(k) == {o \in Range(ops) : o.path = DstPath(k)}

\* The probe of node k found a file at its destination path while override
\* is off: the file node that copyAll skips.
Skipped(k) ==
    /\ ~srcIsDir[k] /\ ~override
    /\ dst0[DstPath(k)] = "old"
    /\ \E o \in OpsOn(k) : o.op = "Get" /\ o.res = "ok"

\* C7: for a file whose destination exists as a file with override off, no
\* Save is issued and the destination keeps its bytes; the invocation never
\* stages, saves or fails, and returns (processed + 1, false, nil); every
\* callback of an ancestor directory gets allProcessed = false; and CopyAll
\* returns nil unless an invocation other than a skipped one failed.
C7_SkipNotError ==
    /\ \A k \in Nodes : Skipped(k) =>
          /\ \A o \in OpsOn(k) : o.op # "Save"
          /\ dst[DstPath(k)] = dst0[DstPath(k)]
          /\ k \notin temps
          /\ \A x \in 1..Len(stack) : stack[x].node = k =>
                \/ stack[x].pc = "file"
                \/ /\ stack[x].pc = "ret"
                   /\ stack[x].rv = [processed |-> 1, allProcessed |-> FALSE,
                                     err |-> "nil"]
          /\ \A r \in Range(rets) : r.node = k =>
                r.err = "nil" /\ ~r.allProcessed /\ r.processed = 1
          /\ \A c \in Range(calls) : c.node \in Ancestors(k) => ~c.allProcessed
    /\ (cpc = "done" /\ rets # <<>>
        /\ \A r \in Range(rets) : ~Skipped(r.node) => r.err = "nil")
       => err = "nil"

C7_Witness ==
    /\ cpc = "done" /\ err = "nil"
    /\ \E k \in Nodes :
          /\ Skipped(k) /\ srcParent[k] # 0 /\ srcParent[srcParent[k]] # 0
          /\ \E r \in Range(rets) : r.node = k
          /\ \E c \in Range(calls) : c.node = 1 /\ ~c.allProcessed
    /\ \E o \in Range(ops) : o.op = "Save" /\ o.res = "ok"

RootConflict ==
    \/ srcIsDir[1] /\ dst0[DstPath(1)] = "old"
    \/ ~srcIsDir[1] /\ dst0[DstPath(1)] = "dir"

\* C8: when the source is a directory and the destination path holds a file,
\* or the source is a file and the destination path holds a directory, no
\* MakeDir and no Save is issued, the destination stays as it was, and once
\* the probe has found the entry CopyAll returns the NotAllowed error.
C8_TypeConflict ==
    (cpc # "idle" /\ RootConflict) =>
        /\ \A o \in Range(ops) : o.op \notin {"MakeDir", "Save"}
        /\ dst = dst0
        /\ (cpc = "done" /\ \E o \in OpsOn(1) : o.op = "Get" /\ o.res = "ok")
           => err = "NotAllowed"

C8_Witness ==
    /\ cpc = "done" /\ err = "NotAllowed"
    /\ srcIsDir[1] /\ dst0[DstPath(1)] = "old"
    /\ nodeCount > 1
    /\ ops = <<[op |-> "Get", path |-> DstPath(1), res |-> "ok"]>>

HardErrors ==
    {"ListFailed", "GetFailed", "MakeDirFailed", "NotAllowed", "NotReadable",
     "StageFailed", "SaveFailed", "CallbackFailed"}

\* Nothing at the destination, and no step failed for a reason other than
\* the cancellation: every node of the tree is to be written.
CleanCopy ==
    /\ \A q \in DstPaths : dst0[q] = "none"
    /\ err \notin HardErrors
    /\ \A q \in DstPaths : dst[q] # "partial"

\* C9 (as claimed): when the flag is set after N of the M nodes were written,
\* N < M, CopyAll returns the Canceled error and exactly those N nodes are at
\* the destination.
C9_CancelLeavesExactlyN ==
    (cpc = "done" /\ canceled /\ CleanCopy /\ writtenAtCancel < nodeCount)
    => (err = "Canceled" /\ Written = writtenAtCancel)

\* C9 (amended): an invocation of copyAll that starts with the flag set issues
\* no Get, MakeDir or Save, stages nothing and returns the Canceled error;
\* after it no invocation does any further work and CopyAll returns Canceled.
\* The node whose invocation had passed its check when the flag was set may
\* still be written: at most one node more than the N written by then.
C9_CancelAtStart ==
    /\ \A x \in 1..Len(stack) : stack[x].canceledAtStart =>
          /\ x = Len(stack)
          /\ stack[x].pc = "ret" /\ stack[x].rv.err = "Canceled"
          /\ OpsOn(stack[x].node) = {}
          /\ stack[x].node \notin temps
          /\ dst[stack[x].to] = dst0[stack[x].to]
    /\ \A r \in Range(rets) : r.canceledAtStart =>
          /\ r.err = "Canceled"
          /\ OpsOn(r.node) = {}
          /\ dst[DstPath(r.node)] = dst0[DstPath(r.node)]
    /\ (\E r \in Range(rets) : r.canceledAtStart) =>
          /\ stack # <<>> => Top.pc = "ret" /\ Top.rv.err = "Canceled"
          /\ cpc = "done" => err = "Canceled"
    /\ canceled => Written <= writtenAtCancel + 1

C9_Witness ==
    /\ cpc = "done" /\ err = "Canceled"
    /\ Written = 2 /\ writtenAtCancel = 2 /\ nodeCount = 4
    /\ \E r \in Range(rets) : r.canceledAtStart /\ r.node = 3
    /\ \E o \in Range(ops) : o.op = "Save" /\ o.res = "ok"

\* C10: the values passed to the caller's ctx.Progress during the replicate
\* phase never decrease.
C10_ProgressMonotone ==
    \A x \in 1..(Len(progress) - 1) : progress[x] <= progress[x + 1]

\* ------------------------------------------------- CopyWithProgress (87-104)
\* line 88: buf := make([]byte, 32*1024)
BufSize == 32 * 1024

\* The sources: whole buffers, and a buffer more or less one byte.
SourceSizes ==
    {s \in {k * BufSize + r : k \in 0..MaxChunks, r \in {0, 1, BufSize - 1}} :
        s <= MaxChunks * BufSize}

Min(a, b) == IF a < b THEN a ELSE b

AccumulateLost(total, w) == total

\* line 100: written += w
Accumulate(total, w) == total + w

\* lines 93-95 and 103: `w, err := io.CopyBuffer(...)` declares a new err in
\* the loop's block; the break leaves the named result err as it was, nil.
ErrAfterCopy(ioErr) == "nil"

InitStream ==
    /\ ResolveIdle /\ CopyIdle /\ TreeIdle /\ FsIdle /\ HttpIdle
    /\ cwSize \in SourceSizes
    /\ cwPos = 0 /\ cwSink = 0 /\ cwW = 0 /\ cwIoErr = "nil"
    /\ written = 0 /\ cwErr = "nil"
    /\ cwPc = "check"
    /\ cwProgress = <<>>
    /\ cwCanceled = FALSE /\ cwSinkAtCancel = 0

streamRest == <<resolveVars, copyVars, treeVars, fsVars, httpVars>>

\* Another goroutine cancels the task, at any moment; the flag stays set.
cwCancel ==
    /\ cwPc \in {"check", "copy", "after"}
    /\ ~cwCanceled
    /\ cwCanceled' = TRUE
    /\ cwSinkAtCancel' = cwSink
    /\ UNCHANGED <<cwSize, cwPos, cwSink, cwW, cwIoErr, written, cwErr, cwPc,
                   cwProgress>>
    /\ UNCHANGED streamRest

\* lines 90-92, and the call of io.CopyBuffer at line 93
cwCheck ==
    /\ cwPc = "check"
    /\ IF cwCanceled
       THEN cwPc' = "done" /\ cwErr' = "Canceled"
       ELSE cwPc' = "copy" /\ cwErr' = cwErr
    /\ cwW' = 0 /\ cwIoErr' = "nil"
    /\ UNCHANGED <<cwSize, cwPos, cwSink, written, cwProgress, cwCanceled,
                   cwSinkAtCancel>>
    /\ UNCHANGED streamRest

\* io.CopyBuffer's loop, one buffer per step: it reads up to len(buf) bytes
\* and writes them, until the source is exhausted or a Read or Write fails;
\* it never looks at the task's context.
cwCopyBuffer ==
    /\ cwPc = "copy"
    /\ LET nr == Min(BufSize, cwSize - cwPos)
       IN  \/ /\ nr = 0
              /\ cwPc' = "after" /\ cwIoErr' = "nil"
              /\ UNCHANGED <<cwPos, cwSink, cwW>>
           \/ /\ nr > 0
              /\ cwPc' = "after" /\ cwIoErr' = "read"
              /\ UNCHANGED <<cwPos, cwSink, cwW>>
           \/ /\ nr > 0
              /\ cwPc' = "after" /\ cwIoErr' = "write"
              /\ cwPos' = cwPos + nr
              /\ UNCHANGED <<cwSink, cwW>>
           \/ /\ nr > 0
              /\ cwPc' = "copy" /\ cwIoErr' = "nil"
              /\ cwPos' = cwPos + nr
              /\ cwSink' = cwSink + nr
              /\ cwW' = cwW + nr
    /\ UNCHANGED <<cwSize, written, cwErr, cwProgress, cwCanceled, cwSinkAtCancel>>
    /\ UNCHANGED streamRest

\* lines 94-103
cwAfterCopy ==
    /\ cwPc = "after"
    /\ \/ /\ cwIoErr # "nil"
          /\ cwPc' = "done" /\ cwErr' = ErrAfterCopy(cwIoErr)
          /\ UNCHANGED <<written, cwProgress>>
       \/ /\ cwIoErr = "nil" /\ cwW = 0
          /\ cwPc' = "done" /\ cwErr' = cwErr
          /\ UNCHANGED <<written, cwProgress>>
       \/ /\ cwIoErr = "nil" /\ cwW # 0
          /\ cwPc' = "check" /\ cwErr' = cwErr
          /\ written' = Accumulate(written, cwW)
          /\ cwProgress' = Append(cwProgress, Accumulate(written, cwW))
    /\ UNCHANGED <<cwSize, cwPos, cwSink, cwW, cwIoErr, cwCanceled, cwSinkAtCancel>>
    /\ UNCHANGED streamRest

NextStream == cwCancel \/ cwCheck \/ cwCopyBuffer \/ cwAfterCopy

SpecStream == InitStream /\ [][NextStream]_vars

RECURSIVE SumDeltas(_)
\* The sum of the steps of a sequence of cumulative values, from 0.
SumDeltas(s) ==
    IF s = <<>> THEN 0
    ELSE (Last(s) - (IF Len(s) = 1 THEN 0 ELSE s[Len(s) - 1])) + SumDeltas(Front(s))

NonDecreasing(s) == \A x \in 1..(Len(s) - 1) : s[x] <= s[x + 1]

\* C11: for a source of S bytes read and written without error, the flag
\* never set, CopyWithProgress returns written = S and a nil error, dst holds
\* the S bytes, the reported values never decrease and their steps sum to S
\* (the last reported value is S).
C11_ChunkedCopyTotals ==
    (cwPc = "done" /\ cwIoErr = "nil" /\ ~cwCanceled) =>
        /\ written = cwSize /\ cwErr = "nil" /\ cwSink = cwSize
        /\ NonDecreasing(cwProgress)
        /\ SumDeltas(cwProgress) = cwSize
        /\ cwSize > 0 => (cwProgress # <<>> /\ Last(cwProgress) = cwSize)

C11_Witness ==
    /\ cwPc = "done" /\ cwIoErr = "nil" /\ ~cwCanceled
    /\ cwSize = 2 * BufSize + 1
    /\ written = cwSize /\ cwErr = "nil"
    /\ cwProgress # <<>> /\ Last(cwProgress) = cwSize

\* The error of the first invocation of copyAll that returned one.
FirstError ==
    IF \E x \in 1..Len(rets) : rets[x].err # "nil"
    THEN rets[CHOOSE x \in 1..Len(rets) :
                 /\ rets[x].err # "nil"
                 /\ \A y \in 1..(x - 1) : rets[y].err = "nil"].err
    ELSE IF stack # <<>> /\ Top.pc = "ret" THEN Top.rv.err ELSE "nil"

\* The node whose invocation failed first.
FirstFailed ==
    IF \E x \in 1..Len(rets) : rets[x].err # "nil"
    THEN rets[CHOOSE x \in 1..Len(rets) :
                 /\ rets[x].err # "nil"
                 /\ \A y \in 1..(x - 1) : rets[y].err = "nil"].node
    ELSE Top.node

\* C12: once an invocation of copyAll has failed, the only thing any frame
\* does is return that error: no Get, MakeDir, Save or callback follows (a
\* failed call is the last of its log, the failed node's ancestors get no
\* callback), every later return carries the first error, and CopyAll
\* returns it.
C12_AbortOnFirstError ==
    /\ \A x \in 1..(Len(ops) - 1) : ops[x].res # "err"
    /\ \A x \in 1..(Len(calls) - 1) : calls[x].res # "err"
    /\ (cpc \in {"copy", "done"} /\ FirstError # "nil") =>
          /\ stack # <<>> => (Top.pc = "ret" /\ Top.rv.err = FirstError)
          /\ \A x \in 1..Len(rets) : rets[x].err \in {"nil", FirstError}
          /\ \A x, y \in 1..Len(rets) :
                (x < y /\ rets[x].err # "nil") => rets[y].err = FirstError
          /\ \A c \in Range(calls) :
                /\ c.node \notin Ancestors(FirstFailed)
                /\ c.node = FirstFailed => c.res = "err"
          /\ ops # <<>> /\ Last(ops).res = "err" =>
                Last(ops).path = DstPath(FirstFailed)
    /\ (cpc = "done" /\ rets # <<>>) => err = FirstError

C12_Witness ==
    /\ cpc = "done" /\ err = "SaveFailed"
    /\ nodeCount = 4
    /\ FirstFailed = 3
    /\ OpsOn(4) = {} /\ srcParent[4] = 1
    /\ \E o \in Range(ops) : o.op = "Save" /\ o.res = "ok"
    /\ Len(rets) = 3

\* C13: a staging file exists only while the file node it was created for is
\* still inside its copyAll call, past ioutil.TempFile; so at most one
\* exists at a time, an invocation that has returned has left none, whatever
\* way it returned, and none exists when CopyAll has returned.
C13_StagingCleanup ==
    /\ Cardinality(temps) <= 1
    /\ \A k \in temps :
          /\ stack # <<>> /\ Top.node = k /\ ~srcIsDir[k]
          /\ Top.pc \in {"stagecopy", "stagecheck", "save", "after", "ret"}
    /\ \A r \in Range(rets) : r.node \notin temps
    /\ cpc = "done" => temps = {}

C13_Witness ==
    /\ cpc = "done" /\ temps = {}
    /\ err = "CallbackFailed"
    /\ Len(rets) = 3
    /\ rets[1].err = "nil" /\ rets[2].err = "CallbackFailed"
    /\ ~srcIsDir[rets[1].node] /\ ~srcIsDir[rets[2].node]
    /\ \E o \in OpsOn(rets[1].node) : o.op = "Save" /\ o.res = "ok"
    /\ \E o \in OpsOn(rets[2].node) : o.op = "Save" /\ o.res = "ok"

(***************************************************************************)
(* FsDrive: the local file system driver.  A path string is a record of    *)
(* its leading slash and its segments; the file system maps the absolute   *)
(* paths that exist (as segment sequences) to "dir" or "file", the root    *)
(* <<>> being a directory.                                                 *)
(***************************************************************************)
\* FsDrive.path, the absolute directory the drive is rooted at
fsRoot == <<"r">>

Segments == {"r", "a", ".."}

RECURSIVE SeqsUpTo(_, _)
SeqsUpTo(S, k) ==
    IF k = 0 THEN {<<>>}
    ELSE LET shorter == SeqsUpTo(S, k - 1)
         IN  shorter \cup {Append(q, x) : q \in shorter, x \in S}

\* the drive-relative paths callers pass in
ArgPaths == {[abs |-> FALSE, segs |-> q] : q \in SeqsUpTo(Segments, MaxArgLen)}

IsPrefix(p, q) == Len(p) <= Len(q) /\ SubSeq(q, 1, Len(p)) = p

\* filepath.Clean on a rooted path: ".." pops a segment and stays at the root
RECURSIVE cleanAbs(_, _)
cleanAbs(done, rest) ==
    IF rest = <<>> THEN done
    ELSE IF rest[1] = ".."
         THEN cleanAbs(IF done = <<>> THEN <<>> ELSE Front(done), Tail(rest))
         ELSE cleanAbs(Append(done, rest[1]), Tail(rest))

\* filepath.Clean on a relative path: leading ".." segments are kept
RECURSIVE cleanRel(_, _)
cleanRel(done, rest) ==
    IF rest = <<>> THEN done
    ELSE IF rest[1] = ".." /\ done # <<>> /\ Last(done) # ".."
         THEN cleanRel(Front(done), Tail(rest))
         ELSE cleanRel(Append(done, rest[1]), Tail(rest))

Clean(path) ==
    IF path.abs THEN [abs |-> TRUE, segs |-> cleanAbs(<<>>, path.segs)]
    ELSE [abs |-> FALSE, segs |-> cleanRel(<<>>, path.segs)]

\* filepath.Join(f.path, path): the two joined by a slash, then cleaned
Join(root, path) == cleanAbs(<<>>, root \o path.segs)

getPath(path) == Join(fsRoot, Clean(path))

TypeAt(fs, p) == IF p = <<>> THEN "dir" ELSE fs[p]

\* os.Stat: "ok", or ENOTDIR when a file lies on the way, or ENOENT
Stat(fs, p) ==
    IF p = <<>> \/ p \in DOMAIN fs THEN "ok"
    ELSE IF \E k \in 1..(Len(p) - 1) :
                SubSeq(p, 1, k) \in DOMAIN fs /\ fs[SubSeq(p, 1, k)] = "file"
         THEN "ENOTDIR"
         ELSE "ENOENT"

\* utils.FileExists: true exactly when os.Stat succeeds
FileExists(fs, p) == Stat(fs, p) = "ok"

NoEntry == [path |-> <<>>, isDir |-> FALSE]

Failed(e) == [entry |-> NoEntry, err |-> e]

newFsFile(fs, p) ==
    IF ~IsPrefix(fsRoot, p) THEN Failed("panic")
    ELSE [entry |-> [path |-> SubSeq(p, Len(fsRoot) + 1, Len(p)),
                     isDir |-> TypeAt(fs, p) = "dir"],
          err |-> "nil"]

Get(fs, path) ==
    LET p == getPath(path)
    IN  IF Stat(fs, p) = "ENOENT" THEN Failed("NotFound")
        ELSE IF Stat(fs, p) # "ok" THEN Failed(Stat(fs, p))
        ELSE newFsFile(fs, p)

requireFile(fs, p, requireExists) ==
    IF requireExists /\ ~FileExists(fs, p) THEN "NotFound"
    ELSE IF ~requireExists /\ FileExists(fs, p) THEN "NotAllowed"
    ELSE "nil"

\* what stops os.Mkdir and os.OpenFile(O_CREATE) from creating p
CreateErr(fs, p) ==
    IF Stat(fs, Front(p)) # "ok" THEN Stat(fs, Front(p))
    ELSE IF TypeAt(fs, Front(p)) # "dir" THEN "ENOTDIR"
    ELSE "nil"

\* line 136: return f.Get(ctx, path), path being the joined path of line 134
ExistingEntry(fs, path) == Get(fs, [abs |-> TRUE, segs |-> getPath(path)])

InitFs ==
    /\ ResolveIdle /\ CopyIdle /\ StreamIdle /\ TreeIdle /\ HttpIdle
    /\ fsEntries = (fsRoot :> "dir")
    /\ fsBefore = fsEntries
    /\ mkArg = <<>>
    /\ mkRet = <<>>

fsRest == <<resolveVars, copyVars, streamVars, treeVars, httpVars>>

\* FsDrive.MakeDir(ctx, path); mkdirOk is whether the system call goes through
MakeDir(path, mkdirOk) ==
    LET p == getPath(path)
    IN  /\ fsBefore' = fsEntries
        /\ mkArg' = <<"MakeDir", path>>
        /\ IF FileExists(fsEntries, p)
           THEN /\ fsEntries' = fsEntries
                /\ mkRet' = <<ExistingEntry(fsEntries, path)>>
           ELSE IF CreateErr(fsEntries, p) # "nil" \/ ~mkdirOk
           THEN /\ fsEntries' = fsEntries
                /\ mkRet' = <<Failed(IF CreateErr(fsEntries, p) # "nil"
                                     THEN CreateErr(fsEntries, p) ELSE "EIO")>>
           ELSE /\ fsEntries' = (p :> "dir") @@ fsEntries
                /\ mkRet' = <<newFsFile(fsEntries', p)>>
        /\ UNCHANGED fsRest

\* FsDrive.Save(ctx, path, size, override, reader); copyOk is whether the
\* content copy into the opened file succeeds
Save(path, over, copyOk) ==
    LET p == getPath(path)
    IN  /\ fsBefore' = fsEntries
        /\ mkArg' = <<"Save", path>>
        /\ IF ~over /\ requireFile(fsEntries, p, FALSE) # "nil"
           THEN /\ fsEntries' = fsEntries
                /\ mkRet' = <<Failed(requireFile(fsEntries, p, FALSE))>>
           ELSE IF FileExists(fsEntries, p) /\ TypeAt(fsEntries, p) = "dir"
           THEN /\ fsEntries' = fsEntries
                /\ mkRet' = <<Failed("EISDIR")>>
           ELSE IF CreateErr(fsEntries, p) # "nil"
           THEN /\ fsEntries' = fsEntries
                /\ mkRet' = <<Failed(CreateErr(fsEntries, p))>>
           ELSE /\ fsEntries' = (p :> "file") @@ fsEntries
                /\ mkRet' = <<IF copyOk THEN newFsFile(fsEntries', p)
                              ELSE Failed("CopyFailed")>>
        /\ UNCHANGED fsRest

NextFs ==
    \/ \E path \in ArgPaths, mkdirOk \in BOOLEAN : MakeDir(path, mkdirOk)
    \/ \E path \in ArgPaths, over \in BOOLEAN, copyOk \in BOOLEAN :
          Save(path, over, copyOk)

SpecFs == InitFs /\ [][NextFs]_vars

\* the last call was MakeDir on a path that existed under the drive root
MakeDirOnExisting ==
    /\ mkArg # <<>> /\ mkArg[1] = "MakeDir"
    /\ IsPrefix(fsRoot, getPath(mkArg[2]))
    /\ FileExists(fsBefore, getPath(mkArg[2]))

\* C14: MakeDir on a path that already exists under the drive root returns,
\* without error, the entry of that path, and leaves the file system as it was.
C14_MakeDirIdempotent ==
    MakeDirOnExisting =>
        /\ mkRet[1].err = "nil"
        /\ mkRet[1].entry.path = SubSeq(getPath(mkArg[2]), Len(fsRoot) + 1,
                                        Len(getPath(mkArg[2])))
        /\ mkRet[1].entry.isDir = (TypeAt(fsBefore, getPath(mkArg[2])) = "dir")
        /\ fsEntries = fsBefore

\* what MakeDir does keep on an existing path: the file system is untouched
MakeDirLeavesFsUnchanged == MakeDirOnExisting => fsEntries = fsBefore

CallsOf(k) == {x \in 1..Len(calls) : calls[x].node = k}

\* in the callback log, every callback of a descendant of a directory comes
\* before the directory's own
DirectoryCalledLast ==
    \A x, y \in 1..Len(calls) :
        calls[x].node \in Ancestors(calls[y].node) => y < x

\* C15 as stated: when CopyAll returns nil, the callback has run exactly once
\* for every node of the tree, skipped files included, and a directory's
\* callback comes after those of all its descendants.
C15_CallbackEveryNode ==
    (cpc = "done" /\ err = "nil") =>
        /\ \A k \in Nodes : Cardinality(CallsOf(k)) = 1
        /\ DirectoryCalledLast

\* C15, amended: when CopyAll returns nil, the callback has run exactly once
\* for every node that was not skipped and never for a skipped file (the skip
\* returns before the callback); a directory's callback comes after those of
\* all its descendants, at any moment of the copy.
C15_CallbackExceptSkipped ==
    /\ (cpc = "done" /\ err = "nil") =>
          \A k \in Nodes :
              Cardinality(CallsOf(k)) = IF Skipped(k) THEN 0 ELSE 1
    /\ \A k \in Nodes : Cardinality(CallsOf(k)) <= 1
    /\ DirectoryCalledLast

C15_Witness ==
    /\ cpc = "done" /\ err = "nil" /\ nodeCount = 4
    /\ \E k \in Nodes : Skipped(k)
    /\ \E k \in Nodes : srcIsDir[k] /\ k # 1 /\ Children(k) # <<>>
    /\ Len(calls) = 3

HasGet(k) == \E o \in OpsOn(k) : o.op = "Get"

Created(k) == \E o \in OpsOn(k) : o.op = "MakeDir" /\ o.res = "ok"

BeneathCreated(k) == \E a \in Ancestors(k) : Created(a)

\* the invocation for node k got past its cancellation check and its probe
PastProbe(k) ==
    \/ \E r \in Range(rets) : r.node = k /\ ~r.canceledAtStart
    \/ \E x \in 1..Len(stack) :
          /\ stack[x].node = k /\ ~stack[x].canceledAtStart
          /\ stack[x].pc \notin {"start", "probe"}

\* C16: before any operation on a child's destination path, the parent's
\* destination was found by Get or made by MakeDir and is a directory; no
\* Get is issued for a path beneath a directory this operation made with
\* MakeDir, at any depth; every other node gets exactly one Get.
C16_PreOrderProbeElision ==
    /\ \A y \in 1..Len(ops) : ops[y].path # <<>> =>
          /\ dst[Front(ops[y].path)] = "dir"
          /\ \E x \in 1..(y - 1) :
                /\ ops[x].path = Front(ops[y].path)
                /\ ops[x].op \in {"Get", "MakeDir"} /\ ops[x].res = "ok"
    /\ \A x, y \in 1..Len(ops) :
          (/\ ops[x].op = "MakeDir" /\ ops[x].res = "ok"
           /\ ops[x].path # ops[y].path /\ IsPrefix(ops[x].path, ops[y].path))
          => ops[y].op # "Get" /\ x < y
    /\ \A k \in Nodes :
          /\ BeneathCreated(k) => ~HasGet(k)
          /\ PastProbe(k) => (HasGet(k) <=> ~BeneathCreated(k))
          /\ Cardinality({y \in 1..Len(ops) :
                            ops[y].path = DstPath(k) /\ ops[y].op = "Get"}) <= 1

C16_Witness ==
    /\ cpc = "done" /\ err = "nil" /\ nodeCount = 4
    /\ HasGet(1) /\ ~Created(1)
    /\ \E k \in Nodes : /\ Created(k) /\ HasGet(k)
                        /\ \E c \in Nodes : /\ k \in Ancestors(c) /\ ~HasGet(c)
                                            /\ \E o \in OpsOn(c) : o.op = "Save"
    /\ \E k \in Nodes : k # 1 /\ ~srcIsDir[k] /\ HasGet(k)

\* C17: once the flag is set, at most the chunk already under way is still
\* written; a copy that ends with the flag set before its source was
\* exhausted returns the Canceled error with written equal to the bytes in
\* dst; and every reported value covers at most one more chunk of BufSize
\* bytes than the one before.
C17_CancelBeforeEachChunk ==
    /\ cwCanceled => cwSink <= cwSinkAtCancel + BufSize
    /\ (/\ cwPc = "done" /\ cwCanceled /\ cwIoErr = "nil"
        /\ cwSinkAtCancel + BufSize < cwSize)
       => (cwErr = "Canceled" /\ written = cwSink)
    /\ \A x \in 1..Len(cwProgress) :
          cwProgress[x] - (IF x = 1 THEN 0 ELSE cwProgress[x - 1]) <= BufSize

\* the first part alone: chunks written after the flag was set
CancelStopsWriting == cwCanceled => cwSink <= cwSinkAtCancel + BufSize

\* C18: when the read from the source or the write to the sink has failed,
\* CopyWithProgress returns a non-nil error.
C18_IoErrorPropagates ==
    (cwPc = "done" /\ cwIoErr # "nil") => cwErr # "nil"

\* the consequence in copyAll: Save is never called with a staged file that
\* holds only part of the source
SaveOnlyWholeStaged ==
    \A x \in 1..Len(stack) : stack[x].pc = "save" => stack[x].staged # "partial"

(***************************************************************************)
(* BuildEntriesTree: the snapshot of the source tree.  The source drive    *)
(* holds the tree of nodeCount, srcParent and srcIsDir; a frame of tStack  *)
(* is one call of buildEntriesTree with its own copy of total.             *)
(***************************************************************************)
InitTree ==
    /\ ResolveIdle /\ StreamIdle /\ FsIdle /\ HttpIdle
    /\ nodeCount \in 1..MaxNodes
    /\ \E t \in SourceTrees : srcParent = t.parent /\ srcIsDir = t.isDir
    /\ dst = <<>> /\ dst0 = <<>>
    /\ override = FALSE /\ canceled = FALSE /\ writtenAtCancel = 0
    /\ cpc = "snapshot" /\ stack = <<>> /\ err = "nil"
    /\ ops = <<>> /\ calls = <<>> /\ progress = <<>> /\ temps = {} /\ rets = <<>>
    /\ tStack = <<>> /\ totals = <<>> /\ tBuilt = {} /\ tErr = "nil"

treeRest == <<resolveVars, streamVars, fsVars, httpVars>>

treeFrame == <<nodeCount, srcParent, srcIsDir, dst, dst0, override,
               writtenAtCancel, stack, err, ops, calls, progress, temps, rets>>

\* a call buildEntriesTree(entry, total, ctx): total is an int parameter
TreeCall(k, total) == [node |-> k, total |-> total, i |-> 1, pc |-> "start",
                       err |-> "nil"]

\* lines 229-233: after the child's call the caller's total is what it was;
\* the child's additions were made to its own copy
TotalAfterChild(parentTotal, childTotal) == parentTotal

\* Another goroutine cancels the task while the snapshot is taken.
tCancel ==
    /\ cpc \in {"snapshot", "walk"}
    /\ ~canceled
    /\ canceled' = TRUE
    /\ UNCHANGED <<cpc, tStack, totals, tBuilt, tErr>>
    /\ UNCHANGED treeFrame
    /\ UNCHANGED treeRest

\* lines 239-245: ctx.Total(1), then the root's call with total = 1
BuildEntriesTree ==
    /\ cpc = "snapshot"
    /\ totals' = Append(totals, 1)
    /\ tStack' = <<TreeCall(1, 1)>>
    /\ cpc' = "walk"
    /\ UNCHANGED <<canceled, tBuilt, tErr>>
    /\ UNCHANGED treeFrame
    /\ UNCHANGED treeRest

\* lines 214-227: the cancellation check, the file case, the listing and
\* the report of the new total; listOk is whether List succeeds
buildEntriesTree(listOk) ==
    /\ cpc = "walk" /\ tStack # <<>> /\ Last(tStack).pc = "start"
    /\ LET f == Last(tStack)
           t == f.total + Len(Children(f.node))
       IN  IF canceled
           THEN /\ tStack' = Append(Front(tStack),
                                    [f EXCEPT !.pc = "ret", !.err = "Canceled"])
                /\ totals' = totals
           ELSE IF ~srcIsDir[f.node]
           THEN /\ tStack' = Append(Front(tStack), [f EXCEPT !.pc = "ret"])
                /\ totals' = totals
           ELSE IF ~listOk
           THEN /\ tStack' = Append(Front(tStack),
                                    [f EXCEPT !.pc = "ret", !.err = "ListFailed"])
                /\ totals' = totals
           ELSE /\ tStack' = Append(Front(tStack),
                                    [f EXCEPT !.total = t, !.pc = "loop"])
                /\ totals' = Append(totals, t)
    /\ UNCHANGED <<canceled, cpc, tBuilt, tErr>>
    /\ UNCHANGED treeFrame
    /\ UNCHANGED treeRest

\* lines 228-229 and 235-236: the next child's call, or the return once the
\* children are done
buildEntriesTreeLoop ==
    /\ cpc = "walk" /\ tStack # <<>> /\ Last(tStack).pc = "loop"
    /\ LET f == Last(tStack)
       IN  IF f.i <= Len(Children(f.node))
           THEN tStack' = Append(tStack, TreeCall(Children(f.node)[f.i], f.total))
           ELSE tStack' = Append(Front(tStack), [f EXCEPT !.pc = "ret"])
    /\ UNCHANGED <<canceled, cpc, totals, tBuilt, tErr>>
    /\ UNCHANGED treeFrame
    /\ UNCHANGED treeRest

\* the return of a call: to the loop of its caller (lines 229-233), or to
\* BuildEntriesTree's caller (line 244)
buildEntriesTreeReturn ==
    /\ cpc = "walk" /\ tStack # <<>> /\ Last(tStack).pc = "ret"
    /\ LET f == Last(tStack)
       IN  /\ tBuilt' = IF f.err = "nil" THEN tBuilt \cup {f.node} ELSE tBuilt
           /\ IF Len(tStack) = 1
              THEN /\ tStack' = <<>>
                   /\ cpc' = "done"
                   /\ tErr' = f.err
              ELSE LET parent == tStack[Len(tStack) - 1]
                       rest == SubSeq(tStack, 1, Len(tStack) - 2)
                   IN  /\ UNCHANGED <<cpc, tErr>>
                       /\ IF f.err # "nil"
                          THEN tStack' = Append(rest,
                                   [parent EXCEPT !.pc = "ret", !.err = f.err])
                          ELSE tStack' = Append(rest,
                                   [parent EXCEPT
                                      !.i = parent.i + 1,
                                      !.total = TotalAfterChild(parent.total,
                                                                f.total)])
    /\ UNCHANGED <<canceled, totals>>
    /\ UNCHANGED treeFrame
    /\ UNCHANGED treeRest

NextTree ==
    \/ tCancel
    \/ BuildEntriesTree
    \/ \E listOk \in BOOLEAN : buildEntriesTree(listOk)
    \/ buildEntriesTreeLoop
    \/ buildEntriesTreeReturn

SpecTree == InitTree /\ [][NextTree]_vars

\* C19: the values passed to ctx.Total never decrease, and when the snapshot
\* completes without error the built tree holds every node of the source and
\* the last value reported is the number of its nodes, the root included.
C19_SnapshotTotal ==
    /\ NonDecreasing(totals)
    /\ (cpc = "done" /\ tErr = "nil") =>
          /\ tBuilt = Nodes
          /\ totals # <<>> /\ Last(totals) = Cardinality(tBuilt)

\* what the snapshot does keep: the built tree is the whole source tree
SnapshotComplete == (cpc = "done" /\ tErr = "nil") => tBuilt = Nodes

(***************************************************************************)
(* DownloadIContent: serving an entry's bytes to an HTTP client.  Of the   *)
(* ResponseWriter w the model keeps the header map, the status code given  *)
(* to WriteHeader and what went out to the client.  The net/http writer    *)
(* sends the status line and a snapshot of the header map at WriteHeader   *)
(* ("immediate"); a writer that buffers the status sends them at the first *)
(* Write or when the handler is done ("deferred").                         *)
(***************************************************************************)
Urls == {"u1", "u2"}

Contents ==
    [urlRes : {"ok", "unsupported"}, url : Urls, proxy : BOOLEAN,
     parseOk : BOOLEAN, readerRes : {"ok", "err"}, seekable : BOOLEAN,
     size : 0..MaxBody, ioOk : BOOLEAN, writer : {"immediate", "deferred"}]

\* w.Header().Set(key, value)
HeaderSet(header, key, value) == (key :> value) @@ header

\* the status line goes out with the header map as it is now, once only
Commit(sent, code, header) ==
    IF sent # <<>> THEN sent ELSE <<[status |-> code, header |-> header]>>

\* w.WriteHeader(code): what has been sent to the client afterwards
WriteHeader(sent, code, header) ==
    IF content.writer = "immediate" THEN Commit(sent, code, header) ELSE sent

\* w.Write: an uncommitted response is committed first, with the status
\* given before or else 200
WriteCommit(sent, status, header) ==
    Commit(sent, IF status = 0 THEN 200 ELSE status, header)

InitHttp ==
    /\ ResolveIdle /\ CopyIdle /\ StreamIdle /\ TreeIdle /\ FsIdle
    /\ content \in Contents
    /\ hpc = "start"
    /\ respHeader = <<>>
    /\ respStatus = 0
    /\ respSent = <<>>
    /\ respBody = 0
    /\ readerOpen = 0
    /\ hErr = "nil"

httpRest == <<resolveVars, copyVars, streamVars, treeVars, fsVars>>

\* lines 150-151 and 169-171: content.GetURL() and the branch taken
hGetURL ==
    /\ hpc = "start"
    /\ hpc' = IF content.urlRes # "ok" THEN "reader"
              ELSE IF content.proxy THEN "proxy" ELSE "redirect"
    /\ UNCHANGED <<content, respHeader, respStatus, respSent, respBody,
                   readerOpen, hErr>>
    /\ UNCHANGED httpRest

\* lines 152-164: the reverse proxy streams the backend's response, or
\* answers 502 when the backend cannot be reached
hProxy ==
    /\ hpc = "proxy"
    /\ IF ~content.parseOk
       THEN /\ hErr' = "ParseFailed"
            /\ UNCHANGED <<respStatus, respSent, respBody>>
       ELSE /\ hErr' = "nil"
            /\ respStatus' = IF content.ioOk THEN 200 ELSE 502
            /\ respSent' = Commit(respSent, respStatus', respHeader)
            /\ respBody' = IF content.ioOk THEN content.size ELSE 0
    /\ hpc' = "ret"
    /\ UNCHANGED <<content, respHeader, readerOpen>>
    /\ UNCHANGED httpRest

\* line 166: w.WriteHeader(302)
hRedirectWriteHeader ==
    /\ hpc = "redirect"
    /\ respStatus' = 302
    /\ respSent' = WriteHeader(respSent, 302, respHeader)
    /\ hpc' = "location"
    /\ UNCHANGED <<content, respHeader, respBody, readerOpen, hErr>>
    /\ UNCHANGED httpRest

\* lines 167 and 169: w.Header().Set("Location", url); return e, which is nil
hRedirectSetLocation ==
    /\ hpc = "location"
    /\ respHeader' = HeaderSet(respHeader, "Location", content.url)
    /\ hErr' = "nil"
    /\ hpc' = "ret"
    /\ UNCHANGED <<content, respStatus, respSent, respBody, readerOpen>>
    /\ UNCHANGED httpRest

\* lines 171-176: content.GetReader()
hGetReader ==
    /\ hpc = "reader"
    /\ readerOpen' = readerOpen + 1
    /\ IF content.readerRes # "ok"
       THEN hErr' = "ReaderFailed" /\ hpc' = "ret"
       ELSE hErr' = hErr /\ hpc' = IF content.seekable THEN "serve" ELSE "length"
    /\ UNCHANGED <<content, respHeader, respStatus, respSent, respBody>>
    /\ UNCHANGED httpRest

\* lines 177-183: http.ServeContent sets its headers, sends the status and
\* copies the body; its failures are not reported to the caller
hServeContent ==
    /\ hpc = "serve"
    /\ respHeader' = HeaderSet(respHeader, "Content-Length", content.size)
    /\ respStatus' = 200
    /\ respSent' = Commit(respSent, 200, respHeader')
    /\ respBody' = IF content.ioOk THEN content.size ELSE 0
    /\ hErr' = "nil"
    /\ hpc' = "ret"
    /\ UNCHANGED <<content, readerOpen>>
    /\ UNCHANGED httpRest

\* line 185: w.Header().Set("Content-Length", ...)
hSetContentLength ==
    /\ hpc = "length"
    /\ respHeader' = HeaderSet(respHeader, "Content-Length", content.size)
    /\ hpc' = "copy"
    /\ UNCHANGED <<content, respStatus, respSent, respBody, readerOpen, hErr>>
    /\ UNCHANGED httpRest

\* lines 186-187: io.Copy(w, reader); the first Write sends the status
hCopy ==
    /\ hpc = "copy"
    /\ IF ~content.ioOk
       THEN /\ hErr' = "CopyFailed"
            /\ UNCHANGED <<respStatus, respSent, respBody>>
       ELSE /\ hErr' = "nil"
            /\ respBody' = content.size
            /\ IF content.size > 0
               THEN /\ respSent' = WriteCommit(respSent, respStatus, respHeader)
                    /\ respStatus' = respSent'[1].status
               ELSE UNCHANGED <<respStatus, respSent>>
    /\ hpc' = "ret"
    /\ UNCHANGED <<content, respHeader, readerOpen>>
    /\ UNCHANGED httpRest

\* the return to the HTTP server: after a nil return a response not yet
\* sent goes out as it stands
hReturn ==
    /\ hpc = "ret"
    /\ respSent' = IF hErr = "nil"
                   THEN WriteCommit(respSent, respStatus, respHeader)
                   ELSE respSent
    /\ hpc' = "done"
    /\ UNCHANGED <<content, respHeader, respStatus, respBody, readerOpen, hErr>>
    /\ UNCHANGED httpRest

NextHttp ==
    \/ hGetURL
    \/ hProxy
    \/ hRedirectWriteHeader
    \/ hRedirectSetLocation
    \/ hGetReader
    \/ hServeContent
    \/ hSetContentLength
    \/ hCopy
    \/ hReturn

SpecHttp == InitHttp /\ [][NextHttp]_vars

\* GetURL succeeded with mustProxy = false
RedirectCase == hpc # "idle" /\ content.urlRes = "ok" /\ ~content.proxy

\* C20: in the redirect case the response sent to the client has status 302
\* and a Location header equal to the entry's URL, no reader is ever opened
\* and no body byte is written.
C20_RedirectDelivery ==
    RedirectCase =>
        /\ readerOpen = 0 /\ respBody = 0
        /\ respSent # <<>> =>
              /\ respSent[1].status = 302
              /\ "Location" \in DOMAIN respSent[1].header
              /\ respSent[1].header["Location"] = content.url
        /\ hpc = "done" => respSent # <<>> /\ hErr = "nil"

\* what the redirect does keep: status 302, no reader, no body
RedirectNoBytes ==
    RedirectCase =>
        /\ readerOpen = 0 /\ respBody = 0
        /\ respSent # <<>> => respSent[1].status = 302
        /\ hpc = "done" => respSent # <<>> /\ hErr = "nil"

=============================================================================
